---- MODULE Spec2Model ----
(***************************************************************************)
(* Model of the firmware tools of secure-riscv-soc:                        *)
(*   software/tools/sign_firmware.py   (sign_firmware)                     *)
(*   software/tools/bin2hex.py         (bin2hex)                           *)
(*   hardware/core/Processor/make_imem.py                                  *)
(*                                                                         *)
(* A byte string (bytes, bytearray, a file's content) is the record        *)
(* [len, nz]: its length and its non-zero bytes, nz[o] being the byte at    *)
(* 0-based offset o; every offset below len that nz leaves out holds a     *)
(* zero byte.  The images are 65536 bytes of mostly zero padding, and this  *)
(* keeps the program's real sizes in the model.  A Python int is the record *)
(* [hi, lo] standing for hi * 65536 + lo with lo in 0..65535 (hi < 0 for a  *)
(* negative int), because 0xDEADBEEF and other 32-bit values exceed the     *)
(* integers TLC computes with.  A text string is a sequence of one          *)
(* character strings.                                                       *)
(*                                                                         *)
(* hmac.new(key, msg, sha256).digest() is a library primitive; it is       *)
(* idealised as a random oracle: hmac_table lists the (key, msg) pairs     *)
(* hashed so far, equal pairs get the same 32-byte digest and different    *)
(* pairs get different digests.                                            *)
(***************************************************************************)
EXTENDS Integers, Sequences, FiniteSets, TLC

VARIABLES
    pc,               \* position inside sign_firmware
    firmware_file,    \* the file at firmware_path: [exists, data]
    key_hex,          \* argument key_hex
    version,          \* argument version (a Python int)
    out_file,         \* the file at output_path: [exists, data]
    out_before,       \* out_file as it was before the invocation
    out_opened,       \* open(output_path, 'wb') has been called
    firmware_data,    \* local firmware_data (bytearray)
    header,           \* local header (bytes)
    key,              \* local key (bytes)
    data_to_sign,     \* local data_to_sign
    mac,              \* local mac (the digest)
    signed_firmware,  \* local signed_firmware
    exit,             \* how the invocation ended: [kind, size, limit, overflow]
    hmac_table,       \* the (key, msg) pairs given to hmac.new so far
    tool,             \* converter run: "bin2hex" or "make_imem"
    hpc,              \* position inside the converter
    bin_data,         \* content of the converter's input file
    num_words,        \* bin2hex argument num_words: [given, n]
    out_lines         \* text lines the converter has emitted

vars == <<pc, firmware_file, key_hex, version, out_file, out_before, out_opened,
          firmware_data, header, key, data_to_sign, mac, signed_firmware, exit,
          hmac_table, tool, hpc, bin_data, num_words, out_lines>>

signVars == <<pc, firmware_file, key_hex, version, out_file, out_before, out_opened,
              firmware_data, header, key, data_to_sign, mac, signed_firmware, exit,
              hmac_table>>

hexVars == <<tool, hpc, bin_data, num_words, out_lines>>

-----------------------------------------------------------------------------
(* Bounds of the explored inputs *)

MaxSmallLen == 1      \* firmware lengths 0..MaxSmallLen are explored
MaxOver == 1          \* firmware lengths header_offset+1..header_offset+MaxOver
MaxVersion == 1       \* versions 0..MaxVersion (and the 32-bit edge values)
MaxBinLen == 5        \* converter inputs of 0..MaxBinLen bytes
MaxNumWords == 3      \* bin2hex num_words in 0..MaxNumWords

-----------------------------------------------------------------------------
(* Program constants *)

header_offset == 65472                       \* 0xFFC0
magic == [hi |-> 57005, lo |-> 48879]        \* 0xDEADBEEF
entry_point == [hi |-> 1, lo |-> 0]          \* 0x00010000
KEY_BYTES == 32
DIGEST_SIZE == 32

-----------------------------------------------------------------------------
(* Python ints and byte strings *)

\* the Python int n, for a natural n TLC can hold
PyInt(n) == [hi |-> n \div 65536, lo |-> n % 65536]

\* the byte string holding the bytes of the sequence s
Bytes(s) ==
    [len |-> Len(s),
     nz  |-> [o \in {i - 1 : i \in {j \in 1..Len(s) : s[j] # 0}} |-> s[o + 1]]]

\* b''
Empty == Bytes(<<>>)

\* b[o], 0 <= o < len(b)
At(b, o) == IF o \in DOMAIN b.nz THEN b.nz[o] ELSE 0

\* a + b
Cat(a, b) ==
    [len |-> a.len + b.len,
     nz  |-> [o \in DOMAIN a.nz \cup {p + a.len : p \in DOMAIN b.nz} |->
                IF o < a.len THEN a.nz[o] ELSE b.nz[o - a.len]]]

\* b'\x00' * n (empty for n <= 0)
Zeros(n) == [len |-> IF n > 0 THEN n ELSE 0, nz |-> Empty.nz]

\* s[a:b] for 0 <= a (Python slice, clipped to the length)
Slice(s, a, b) ==
    LET e == IF b < s.len THEN b ELSE s.len
    IN  IF a >= e THEN Empty
        ELSE [len |-> e - a,
              nz  |-> [o \in {p - a : p \in {q \in DOMAIN s.nz : q >= a /\ q < e}} |->
                         s.nz[o + a]]]

\* struct.pack('<I', v) succeeds only for 0 <= v <= 0xFFFFFFFF
InRangeU32(v) == v.hi >= 0 /\ v.hi <= 65535

\* struct.pack('<I', v): four bytes, least significant first
pack_I_be(v) ==
    Bytes(<< v.hi \div 256, v.hi % 256, v.lo \div 256, v.lo % 256 >>)

pack_I(v) ==
    Bytes(<< v.lo % 256, v.lo \div 256, v.hi % 256, v.hi \div 256 >>)

\* struct.unpack('<I', b)[0]
unpack_I(b) ==
    [hi |-> At(b, 3) * 256 + At(b, 2), lo |-> At(b, 1) * 256 + At(b, 0)]

-----------------------------------------------------------------------------
(* bytes.fromhex *)

HexChars == {"0","1","2","3","4","5","6","7","8","9",
             "a","b","c","d","e","f","A","B","C","D","E","F"}

HexVal(c) ==
    CASE c = "0" -> 0  [] c = "1" -> 1  [] c = "2" -> 2  [] c = "3" -> 3
      [] c = "4" -> 4  [] c = "5" -> 5  [] c = "6" -> 6  [] c = "7" -> 7
      [] c = "8" -> 8  [] c = "9" -> 9
      [] c \in {"a", "A"} -> 10  [] c \in {"b", "B"} -> 11
      [] c \in {"c", "C"} -> 12  [] c \in {"d", "D"} -> 13
      [] c \in {"e", "E"} -> 14  [] c \in {"f", "F"} -> 15

\* the ASCII white space bytes.fromhex skips: space, tab, line feed, carriage
\* return, form feed and vertical tab (0x0B, written as the character itself)
WhiteSpace == {" ", "\t", "\n", "\r", "\f", ""}

IsSpace(c) == c \in WhiteSpace

\* bytes.fromhex scans left to right: ASCII white space between two-digit pairs
\* is skipped, anything else that is not a pair of hex digits raises ValueError
RECURSIVE fromhex_from(_, _, _)
fromhex_from(s, i, acc) ==
    IF i > Len(s) THEN [ok |-> TRUE, bytes |-> Bytes(acc)]
    ELSE IF IsSpace(s[i]) THEN fromhex_from(s, i + 1, acc)
    ELSE IF i + 1 > Len(s) \/ s[i] \notin HexChars \/ s[i + 1] \notin HexChars
         THEN [ok |-> FALSE, bytes |-> Empty]
    ELSE fromhex_from(s, i + 2, Append(acc, 16 * HexVal(s[i]) + HexVal(s[i + 1])))

fromhex(s) == fromhex_from(s, 1, <<>>)

-----------------------------------------------------------------------------
(* hmac.new(key, msg, hashlib.sha256).digest(), as a random oracle *)

\* the digest handed out for the n-th distinct (key, msg) pair
HmacDigest(n) == Bytes([i \in 1..DIGEST_SIZE |-> (17 * n + 31 * i + 5) % 256])

HmacKnown(table, k, m) == \E i \in 1..Len(table) : table[i] = <<k, m>>

HmacIndex(table, k, m) ==
    IF HmacKnown(table, k, m)
    THEN CHOOSE i \in 1..Len(table) : table[i] = <<k, m>>
    ELSE Len(table) + 1

\* the digest of (k, m) given the pairs hashed so far
hmac_digest(table, k, m) == HmacDigest(HmacIndex(table, k, m))

\* the table after hashing (k, m)
hmac_record(table, k, m) ==
    IF HmacKnown(table, k, m) THEN table ELSE Append(table, <<k, m>>)

-----------------------------------------------------------------------------
(* Inputs of sign_firmware *)

Rep(p, n) == [i \in 1..(n * Len(p)) |-> p[((i - 1) % Len(p)) + 1]]

\* firmware contents of L bytes: byte o is (s + 37 * o) % 256 at the first two and
\* the last two offsets and zero in between
Firmware(L, s) ==
    [len |-> L,
     nz  |-> [o \in {p \in {0, 1, L - 2, L - 1} :
                       p >= 0 /\ p < L /\ (s + 37 * p) % 256 # 0} |->
                (s + 37 * o) % 256]]

FillSeeds == {0, 1}

NoFile == [exists |-> FALSE, data |-> Empty]

File(d) == [exists |-> TRUE, data |-> d]

FirmwareLens ==
    (0..MaxSmallLen) \cup {header_offset - 1}
        \cup (header_offset .. (header_offset + MaxOver))

FirmwareFiles ==
    {NoFile} \cup {File(Firmware(L, s)) : L \in FirmwareLens, s \in FillSeeds}

\* 0..MaxVersion, 2^32 - 1, 2^32 and -1
Versions ==
    {PyInt(v) : v \in 0..MaxVersion}
        \cup {[hi |-> 65535, lo |-> 65535], [hi |-> 65536, lo |-> 0],
              [hi |-> -1, lo |-> 65535]}

\* int(datetime.now().timestamp()): a date in 2023 and one after 2038
Timestamps == {PyInt(1700000000), [hi |-> 40000, lo |-> 7]}

KeyHexInputs ==
    { Rep(<<"0", "0">>, 32),          \* 32 zero bytes
      Rep(<<"0", "1">>, 32),          \* 32 bytes 0x01
      Rep(<<"a", "B">>, 31),          \* 31 bytes
      Rep(<<"0", "1", " ">>, 33),     \* 33 bytes, separated by blanks
      \* 32 bytes 0x01 with every kind of ASCII white space around the pairs
      <<"\t">> \o Rep(<<"0", "1">>, 31) \o <<"\r", "\n", "\f", "", " ">>
          \o <<"0", "1", "\n">>,
      Rep(<<"0", "1", "\r", "\n">>, 2),   \* 2 bytes, one per line
      Rep(<<"0", "1">>, 31) \o <<"0", "\t", "1">>,  \* white space inside a pair
      <<>>,                           \* 0 bytes
      Rep(<<"0">>, 63),               \* odd number of digits
      Rep(<<"0", "g">>, 32) }         \* not hex

OutFiles == {NoFile, File(Bytes(<<222, 173>>))}

\* bytes a failing f.write may leave behind
PartialLens == {0, 1, header_offset, header_offset + 32}

Running == [kind |-> "running", code |-> 0, size |-> 0, limit |-> 0, overflow |-> 0]

Ended(k, c) == [kind |-> k, code |-> c, size |-> 0, limit |-> 0, overflow |-> 0]

-----------------------------------------------------------------------------
(* sign_firmware *)

InitSign ==
    /\ pc = "start"
    /\ firmware_file \in FirmwareFiles
    /\ key_hex \in KeyHexInputs
    /\ version \in Versions
    /\ out_before \in OutFiles
    /\ out_file = out_before
    /\ out_opened = FALSE
    /\ firmware_data = Empty
    /\ header = Empty
    /\ key = Empty
    /\ data_to_sign = Empty
    /\ mac = Empty
    /\ signed_firmware = Empty
    /\ exit = Running
    /\ hmac_table = <<>>

IdleHex ==
    /\ tool = "none"
    /\ hpc = "idle"
    /\ bin_data = Empty
    /\ num_words = [given |-> FALSE, n |-> 0]
    /\ out_lines = <<>>

Init == InitSign /\ IdleHex

\* lines 35-40: read the firmware file
ReadFirmware ==
    /\ pc = "start"
    /\ IF firmware_file.exists
       THEN /\ firmware_data' = firmware_file.data
            /\ pc' = "read"
            /\ exit' = exit
       ELSE /\ pc' = "exit"
            /\ exit' = Ended("FileNotFound", 1)
            /\ firmware_data' = firmware_data
    /\ UNCHANGED <<firmware_file, key_hex, version, out_file, out_before, out_opened,
                   header, key, data_to_sign, mac, signed_firmware, hmac_table>>
    /\ UNCHANGED hexVars

\* line 48: the size test
TooLargeOffByOne(data) == data.len >= header_offset

TooLarge(data) == data.len > header_offset

\* lines 48-53: the size gate
CheckSizeNoExit ==
    /\ pc = "read"
    /\ pc' = "sized"
    /\ exit' = IF TooLarge(firmware_data)
               THEN [kind |-> "PayloadTooLarge", code |-> 1,
                     size |-> firmware_data.len,
                     limit |-> header_offset,
                     overflow |-> firmware_data.len - header_offset]
               ELSE exit
    /\ UNCHANGED <<firmware_file, key_hex, version, out_file, out_before, out_opened,
                   firmware_data, header, key, data_to_sign, mac, signed_firmware,
                   hmac_table>>
    /\ UNCHANGED hexVars

CheckSize ==
    /\ pc = "read"
    /\ IF TooLarge(firmware_data)
       THEN /\ pc' = "exit"
            /\ exit' = [kind |-> "PayloadTooLarge", code |-> 1,
                        size |-> firmware_data.len,
                        limit |-> header_offset,
                        overflow |-> firmware_data.len - header_offset]
       ELSE /\ pc' = "sized"
            /\ exit' = exit
    /\ UNCHANGED <<firmware_file, key_hex, version, out_file, out_before, out_opened,
                   firmware_data, header, key, data_to_sign, mac, signed_firmware,
                   hmac_table>>
    /\ UNCHANGED hexVars

\* lines 56-57: firmware_data.extend(b'\x00' * padding_needed)
PadNone(data) == data

PadDirty(data) ==
    LET padding_needed == header_offset - data.len
    IN  IF padding_needed > 0
        THEN Cat(Cat(data, Bytes(<<255>>)), Zeros(padding_needed - 1))
        ELSE data

Padded(data) ==
    LET padding_needed == header_offset - data.len
    IN  Cat(data, Zeros(padding_needed))

Pad ==
    /\ pc = "sized"
    /\ firmware_data' = Padded(firmware_data)
    /\ pc' = "padded"
    /\ UNCHANGED <<firmware_file, key_hex, version, out_file, out_before, out_opened,
                   header, key, data_to_sign, mac, signed_firmware, exit, hmac_table>>
    /\ UNCHANGED hexVars

\* lines 61-82: the 32 header bytes in front of the signature
HeaderFields(ver, length, timestamp) ==
    << magic, ver, length, entry_point, timestamp, PyInt(0), PyInt(0), PyInt(0) >>

RECURSIVE PackFrom(_, _)
PackFrom(f, i) ==
    IF i > Len(f) THEN Empty ELSE Cat(pack_I(f[i]), PackFrom(f, i + 1))

PackFields(f) == PackFrom(f, 1)

BuildHeader ==
    /\ pc = "padded"
    /\ \E timestamp \in Timestamps :
         LET length == PyInt(firmware_data.len)
             f == HeaderFields(version, length, timestamp)
         IN  IF \A i \in 1..8 : InRangeU32(f[i])
             THEN /\ header' = PackFields(f)
                  /\ pc' = "header"
                  /\ exit' = exit
             ELSE \* struct.error is not caught: the process dies with a traceback
                  /\ header' = header
                  /\ pc' = "exit"
                  /\ exit' = Ended("StructError", 1)
    /\ UNCHANGED <<firmware_file, key_hex, version, out_file, out_before, out_opened,
                   firmware_data, key, data_to_sign, mac, signed_firmware, hmac_table>>
    /\ UNCHANGED hexVars

\* lines 85-93: decode and check the key
KeyLengthAtMost(k) == k.len <= KEY_BYTES

KeyLengthOk(k) == k.len = KEY_BYTES

DecodeKey ==
    /\ pc = "header"
    /\ LET r == fromhex(key_hex)
       IN  IF ~r.ok
           THEN /\ pc' = "exit"
                /\ exit' = Ended("MalformedKeyEncoding", 1)
                /\ key' = key
           ELSE IF ~KeyLengthOk(r.bytes)
           THEN /\ pc' = "exit"
                /\ exit' = Ended("InvalidKeyLength", 1)
                /\ key' = r.bytes
           ELSE /\ pc' = "keyed"
                /\ exit' = exit
                /\ key' = r.bytes
    /\ UNCHANGED <<firmware_file, key_hex, version, out_file, out_before, out_opened,
                   firmware_data, header, data_to_sign, mac, signed_firmware,
                   hmac_table>>
    /\ UNCHANGED hexVars

\* line 99: data_to_sign = firmware_data + header
DataToSignZeroedSig(fw, hdr) == Cat(Cat(fw, hdr), Zeros(DIGEST_SIZE))

DataToSignPayloadOnly(fw, hdr) == fw

DataToSign(fw, hdr) == Cat(fw, hdr)

\* lines 99-105: the HMAC
ComputeMac ==
    /\ pc = "keyed"
    /\ data_to_sign' = DataToSign(firmware_data, header)
    /\ mac' = hmac_digest(hmac_table, key, data_to_sign')
    /\ hmac_table' = hmac_record(hmac_table, key, data_to_sign')
    /\ pc' = "mac"
    /\ UNCHANGED <<firmware_file, key_hex, version, out_file, out_before, out_opened,
                   firmware_data, header, key, signed_firmware, exit>>
    /\ UNCHANGED hexVars

\* lines 110-114: the eight signature words, appended to the header
RECURSIVE SignatureBytes(_, _)
SignatureBytes(m, i) ==
    IF i >= 8 THEN Empty
    ELSE LET word == unpack_I(Slice(m, i * 4, (i + 1) * 4))
         IN  Cat(pack_I(word), SignatureBytes(m, i + 1))

AppendSignature ==
    /\ pc = "mac"
    /\ header' = Cat(header, SignatureBytes(mac, 0))
    /\ pc' = "signed"
    /\ UNCHANGED <<firmware_file, key_hex, version, out_file, out_before, out_opened,
                   firmware_data, key, data_to_sign, mac, signed_firmware, exit,
                   hmac_table>>
    /\ UNCHANGED hexVars

\* line 121: signed_firmware = firmware_data + header
Assemble(fw, hdr) == Cat(fw, hdr)

\* lines 121-124: open(output_path, 'wb') truncates the file, or raises IOError
\* and leaves it alone
OpenOutput ==
    /\ pc = "signed"
    /\ signed_firmware' = Assemble(firmware_data, header)
    /\ out_opened' = TRUE
    /\ \/ /\ out_file' = File(Empty)
          /\ pc' = "opened"
          /\ exit' = exit
       \/ /\ out_file' = out_file
          /\ pc' = "exit"
          /\ exit' = Ended("IOFailure", 1)
    /\ UNCHANGED <<firmware_file, key_hex, version, out_before, firmware_data, header,
                   key, data_to_sign, mac, hmac_table>>
    /\ UNCHANGED hexVars

\* lines 125-129: f.write(signed_firmware) and the close of the with block; an
\* IOError (a full disk, a device error) leaves the bytes written before it
WriteOutput ==
    /\ pc = "opened"
    /\ \/ /\ out_file' = File(signed_firmware)
          /\ pc' = "done"
          /\ exit' = Ended("Signed", 0)
       \/ \E n \in PartialLens :
            /\ n < signed_firmware.len
            /\ out_file' = File(Slice(signed_firmware, 0, n))
            /\ pc' = "exit"
            /\ exit' = Ended("IOFailure", 1)
    /\ UNCHANGED <<firmware_file, key_hex, version, out_before, out_opened,
                   firmware_data, header, key, data_to_sign, mac, signed_firmware,
                   hmac_table>>
    /\ UNCHANGED hexVars

Next ==
    \/ ReadFirmware
    \/ CheckSize
    \/ Pad
    \/ BuildHeader
    \/ DecodeKey
    \/ ComputeMac
    \/ AppendSignature
    \/ OpenOutput
    \/ WriteOutput

Spec == Init /\ [][Next]_vars

-----------------------------------------------------------------------------
(* bin2hex.py and make_imem.py *)

HexDigits == <<"0","1","2","3","4","5","6","7","8","9","a","b","c","d","e","f">>

\* four lower-case hex digits of n in 0..65535
Hex4(n) ==
    << HexDigits[(n \div 4096) + 1], HexDigits[((n \div 256) % 16) + 1],
       HexDigits[((n \div 16) % 16) + 1], HexDigits[(n % 16) + 1] >>

\* f"{v:08x}" for a 32-bit v
Format08x(v) == Hex4(v.hi) \o Hex4(v.lo)

\* str(n) for a natural n
RECURSIVE Decimal(_)
Decimal(n) ==
    IF n < 10 THEN <<HexDigits[n + 1]>>
    ELSE Decimal(n \div 10) \o <<HexDigits[(n % 10) + 1]>>

\* bin2hex.py lines 16-17: pad to a word boundary
PadToWord(data) ==
    IF data.len % 4 # 0
    THEN Cat(data, Zeros(4 - (data.len % 4)))
    ELSE data

\* bin2hex.py lines 34-35: word[0] | word[1] << 8 | word[2] << 16 | word[3] << 24
WordValBigEndian(word) ==
    [hi |-> At(word, 1) + At(word, 0) * 256, lo |-> At(word, 3) + At(word, 2) * 256]

WordVal(word) ==
    [hi |-> At(word, 2) + At(word, 3) * 256, lo |-> At(word, 0) + At(word, 1) * 256]

\* bin2hex.py lines 30-36: the loop over the data, i = 0, 4, 8, ...
RECURSIVE DataLines(_, _, _)
DataLines(data, i, n) ==
    IF i >= data.len THEN <<>>
    ELSE (IF i \div 4 < n
          THEN << Format08x(WordVal(Slice(data, i, i + 4))) >>
          ELSE <<>>)
         \o DataLines(data, i + 4, n)

\* bin2hex.py lines 39-40: for i in range(actual_words, num_words)
ZeroLines(actual_words, n) ==
    [k \in 1..(n - actual_words) |-> <<"0","0","0","0","0","0","0","0">>]

\* bin2hex.py lines 12-40: the lines written to hex_file
Bin2hexLines(raw, nw) ==
    LET data == PadToWord(raw)
        actual_words == data.len \div 4
        n == IF nw.given THEN nw.n ELSE actual_words
    IN  DataLines(data, 0, n) \o ZeroLines(actual_words, n)

\* make_imem.py line 8: int.from_bytes(w, byteorder='little')
from_bytes_little(w) ==
    [hi |-> At(w, 2) + At(w, 3) * 256, lo |-> At(w, 0) + At(w, 1) * 256]

\* make_imem.py line 9: f"    memory[{i//4}] = 32'h{val:08x};"
ImemLine(index, val) ==
    <<" "," "," "," ","m","e","m","o","r","y","[">> \o Decimal(index)
        \o <<"]"," ","="," ","3","2","'","h">> \o Format08x(val) \o <<";">>

\* make_imem.py lines 4-9
RECURSIVE ImemLines(_, _)
ImemLines(b, i) ==
    IF i >= b.len THEN <<>>
    ELSE LET w0 == Slice(b, i, i + 4)
             w == IF w0.len < 4 THEN Cat(w0, Zeros(4 - w0.len)) ELSE w0
             val == from_bytes_little(w)
         IN  << ImemLine(i \div 4, val) >> \o ImemLines(b, i + 4)

BinBytes == {0, 18, 239}

BinInputs == {Bytes(s) : s \in UNION {[1..n -> BinBytes] : n \in 0..MaxBinLen}}

NotGiven == [given |-> FALSE, n |-> 0]

NumWordsArgs == {NotGiven} \cup {[given |-> TRUE, n |-> k] : k \in 0..MaxNumWords}

IdleSign ==
    /\ pc = "idle"
    /\ firmware_file = NoFile
    /\ key_hex = <<>>
    /\ version = PyInt(0)
    /\ out_before = NoFile
    /\ out_file = NoFile
    /\ out_opened = FALSE
    /\ firmware_data = Empty
    /\ header = Empty
    /\ key = Empty
    /\ data_to_sign = Empty
    /\ mac = Empty
    /\ signed_firmware = Empty
    /\ exit = Running
    /\ hmac_table = <<>>

InitHex ==
    /\ IdleSign
    /\ hpc = "start"
    /\ bin_data \in BinInputs
    /\ out_lines = <<>>
    /\ \/ tool = "bin2hex" /\ num_words \in NumWordsArgs
       \/ tool = "make_imem" /\ num_words = NotGiven

\* bin2hex(bin_file, hex_file, num_words)
RunBin2hex ==
    /\ tool = "bin2hex"
    /\ hpc = "start"
    /\ out_lines' = Bin2hexLines(bin_data, num_words)
    /\ hpc' = "done"
    /\ UNCHANGED <<tool, bin_data, num_words>>
    /\ UNCHANGED signVars

\* python3 make_imem.py test.bin
RunMakeImem ==
    /\ tool = "make_imem"
    /\ hpc = "start"
    /\ out_lines' = ImemLines(bin_data, 0)
    /\ hpc' = "done"
    /\ UNCHANGED <<tool, bin_data, num_words>>
    /\ UNCHANGED signVars

NextHex ==
    \/ RunBin2hex
    \/ RunMakeImem

SpecHex == InitHex /\ [][NextHex]_vars

-----------------------------------------------------------------------------
(* Helpers used to state the properties *)

PAYLOAD_MAX == header_offset

ValidationFailures == {"PayloadTooLarge", "InvalidKeyLength", "MalformedKeyEncoding"}

\* the image at output_path
Image == out_file.data

\* the invocation has written a complete image
ImageWritten == pc = "done"

\* the little-endian 32-bit word of img at byte offset off
WordAt(img, off) ==
    [hi |-> At(img, off + 3) * 256 + At(img, off + 2),
     lo |-> At(img, off + 1) * 256 + At(img, off)]

\* the 32 bytes of the signature field
EmbeddedSignature(img) == Slice(img, PAYLOAD_MAX + 32, PAYLOAD_MAX + 64)

\* what the verifier of the specification hashes: the payload and the 64-byte
\* header whose signature field is zeroed
ZeroedHeaderInput(img) ==
    Cat(Cat(Slice(img, 0, PAYLOAD_MAX), Slice(img, PAYLOAD_MAX, PAYLOAD_MAX + 32)),
        Zeros(32))

\* the payload and the 32 header bytes in front of the signature field
UnsignedPrefix(img) == Slice(img, 0, PAYLOAD_MAX + 32)

\* the digest a verifier holding k obtains for message m
Recomputed(k, m) == hmac_digest(hmac_table, k, m)

\* img with one bit of the byte at offset off flipped
FlipBit(img, off, bit) ==
    LET b == At(img, off)
        nb == IF (b \div bit) % 2 = 0 THEN b + bit ELSE b - bit
    IN  [len |-> img.len,
         nz  |-> [o \in (DOMAIN img.nz \ {off}) \cup {p \in {off} : nb # 0} |->
                    IF o = off THEN nb ELSE img.nz[o]]]

\* offsets tampered with: the first and last bytes of the payload region, the
\* bytes around the end of the firmware, and every header byte in front of the
\* signature
TamperOffsets ==
    LET L == firmware_file.data.len
    IN  {o \in {0, 1, L - 1, L, L + 1, PAYLOAD_MAX - 2, PAYLOAD_MAX - 1} :
            o >= 0 /\ o < PAYLOAD_MAX}
          \cup (PAYLOAD_MAX .. (PAYLOAD_MAX + 31))

StageRank(p) ==
    CASE p = "start" -> 0  [] p = "read" -> 1    [] p = "sized" -> 2
      [] p = "padded" -> 3 [] p = "header" -> 4  [] p = "keyed" -> 5
      [] p = "mac" -> 6    [] p = "signed" -> 7  [] p = "opened" -> 8
      [] p = "done" -> 9   [] OTHER -> 10

-----------------------------------------------------------------------------
(* Properties *)

\* C1 (as stated): recomputing HMAC-SHA256(key, payload || 64-byte header with the
\* signature field zeroed) over a written image gives the embedded signature.
C1_ZeroedSignatureRoundTrip ==
    ImageWritten => Recomputed(key, ZeroedHeaderInput(Image)) = EmbeddedSignature(Image)

\* C1 (amended): the signer's MAC input is the padded payload followed by the 32
\* header bytes in front of the signature field, the signature field left out;
\* recomputing HMAC-SHA256 over exactly these PAYLOAD_MAX + 32 bytes of a written
\* image gives the embedded signature.
C1_UnsignedPrefixRoundTrip ==
    ImageWritten =>
        /\ data_to_sign.len = PAYLOAD_MAX + 32
        /\ data_to_sign = UnsignedPrefix(Image)
        /\ Recomputed(key, UnsignedPrefix(Image)) = EmbeddedSignature(Image)

C1_Witness ==
    /\ ImageWritten
    /\ Image.len = PAYLOAD_MAX + 64
    /\ EmbeddedSignature(Image) = mac
    /\ mac.len = 32
    /\ firmware_file.data.len = 1

\* C2: for every firmware of length L <= PAYLOAD_MAX and valid key, the written
\* image is exactly PAYLOAD_MAX + 64 bytes long, whatever L is.
C2_SizeInvariant ==
    ImageWritten =>
        /\ firmware_file.data.len <= PAYLOAD_MAX
        /\ out_file.exists
        /\ Image.len = PAYLOAD_MAX + 64
        /\ signed_firmware.len = PAYLOAD_MAX + 64

C2_Witness ==
    /\ ImageWritten
    /\ firmware_file.data.len = 0
    /\ Image.len = PAYLOAD_MAX + 64

\* C3: a firmware of exactly PAYLOAD_MAX bytes passes the size gate; a longer one
\* is rejected with PayloadTooLarge reporting overflow = L - PAYLOAD_MAX and
\* limit = PAYLOAD_MAX, is not truncated, and nothing is signed or written.
C3_SizeGate ==
    LET L == firmware_file.data.len
    IN  (firmware_file.exists /\ pc \notin {"start", "read"}) =>
            IF L > PAYLOAD_MAX
            THEN /\ pc = "exit"
                 /\ exit.kind = "PayloadTooLarge"
                 /\ exit.overflow = L - PAYLOAD_MAX
                 /\ exit.limit = PAYLOAD_MAX
                 /\ exit.size = L
                 /\ firmware_data = firmware_file.data
                 /\ hmac_table = <<>>
                 /\ out_file = out_before
            ELSE /\ exit.kind # "PayloadTooLarge"
                 /\ firmware_data.len >= L
                 /\ Slice(firmware_data, 0, L) = firmware_file.data

C3_Witness ==
    /\ pc = "exit"
    /\ exit.kind = "PayloadTooLarge"
    /\ exit.overflow = 1
    /\ firmware_file.data.len = PAYLOAD_MAX + 1

\* C4: a key that decodes to other than 32 bytes is rejected with
\* InvalidKeyLength before any HMAC is computed; every key of 32 bytes is
\* accepted and the invocation goes on.
C4_KeyGate ==
    LET r == fromhex(key_hex)
        decided == pc \in {"keyed", "mac", "signed", "opened", "done"}
                     \/ (pc = "exit" /\ exit.kind \in
                           {"InvalidKeyLength", "MalformedKeyEncoding", "IOFailure"})
    IN  (decided /\ r.ok) =>
            IF r.bytes.len # 32
            THEN /\ pc = "exit"
                 /\ exit.kind = "InvalidKeyLength"
                 /\ hmac_table = <<>>
                 /\ mac = Empty
            ELSE /\ exit.kind \notin {"InvalidKeyLength", "MalformedKeyEncoding"}
                 /\ key = r.bytes

C4_Witness ==
    /\ pc = "exit"
    /\ exit.kind = "InvalidKeyLength"
    /\ key.len = 31
    /\ hmac_table = <<>>

\* C5: after an invocation the destination holds the complete signed image or is
\* unchanged from before the invocation.
C5_AtomicOutput ==
    pc \in {"exit", "done"} =>
        \/ out_file = out_before
        \/ /\ out_file.exists
           /\ Image.len = PAYLOAD_MAX + 64
           /\ Image = signed_firmware

\* C6: every byte of the written image outside the signature field is part of the
\* signer's MAC input, so an image with a bit flipped in any such byte does not
\* verify: the MAC recomputed over it differs from the signature it carries.
C6_MacCoverage ==
    ImageWritten =>
        /\ HmacKnown(hmac_table, key, data_to_sign)
        /\ data_to_sign = UnsignedPrefix(Image)
        /\ EmbeddedSignature(Image) = Recomputed(key, data_to_sign)
        /\ \A o \in TamperOffsets : \A bit \in {1, 2, 4, 8, 16, 32, 64, 128} :
             LET t == FlipBit(Image, o, bit)
             IN  Recomputed(key, UnsignedPrefix(t)) # EmbeddedSignature(t)

C6_Witness ==
    /\ ImageWritten
    /\ firmware_file.data.len = 1
    /\ Recomputed(key, UnsignedPrefix(FlipBit(Image, PAYLOAD_MAX + 16, 1)))
         # EmbeddedSignature(Image)

\* C7: in every written image the word at PAYLOAD_MAX is 0xDEADBEEF, the word at
\* PAYLOAD_MAX + 4 is the version given, the word at PAYLOAD_MAX + 8 is
\* PAYLOAD_MAX whatever the firmware length, and the words at PAYLOAD_MAX + 20,
\* + 24 and + 28 are zero.
C7_HeaderConstants ==
    ImageWritten =>
        /\ WordAt(Image, PAYLOAD_MAX) = [hi |-> 57005, lo |-> 48879]
        /\ WordAt(Image, PAYLOAD_MAX + 4) = version
        /\ WordAt(Image, PAYLOAD_MAX + 8) = [hi |-> 0, lo |-> PAYLOAD_MAX]
        /\ WordAt(Image, PAYLOAD_MAX + 20) = [hi |-> 0, lo |-> 0]
        /\ WordAt(Image, PAYLOAD_MAX + 24) = [hi |-> 0, lo |-> 0]
        /\ WordAt(Image, PAYLOAD_MAX + 28) = [hi |-> 0, lo |-> 0]

C7_Witness ==
    /\ ImageWritten
    /\ firmware_file.data.len = 1
    /\ version = [hi |-> 65535, lo |-> 65535]
    /\ WordAt(Image, PAYLOAD_MAX + 8) = [hi |-> 0, lo |-> PAYLOAD_MAX]

\* C8: whenever the HMAC has been computed or the output opened, the payload
\* buffer is PAYLOAD_MAX bytes, its first L bytes are the firmware, the rest is
\* zero, and the same bytes are the ones hashed and the ones written at offset 0.
C8_PaddingPrecedesSigning ==
    LET L == firmware_file.data.len
    IN  (hmac_table # <<>> \/ out_opened) =>
            /\ firmware_data.len = PAYLOAD_MAX
            /\ \A o \in DOMAIN firmware_file.data.nz :
                 At(firmware_data, o) = At(firmware_file.data, o)
            /\ \A o \in DOMAIN firmware_data.nz :
                 o < L /\ At(firmware_file.data, o) = At(firmware_data, o)
            /\ \A q \in 1..Len(hmac_table) :
                 Slice(hmac_table[q][2], 0, PAYLOAD_MAX) = firmware_data
            /\ ImageWritten => Slice(Image, 0, PAYLOAD_MAX) = firmware_data

C8_Witness ==
    /\ ImageWritten
    /\ hmac_table # <<>>
    /\ firmware_file.data.len = 1
    /\ At(firmware_data, 0) = 1
    /\ At(firmware_data, 1) = 0
    /\ firmware_data.len = PAYLOAD_MAX

\* C9: the invocation moves through its stages in order; once a payload-size,
\* key-length or key-encoding validation has failed it has ended, no HMAC has
\* been computed, the output has never been opened, and no later step is taken.
C9_StateAfterFailure ==
    exit.kind \in ValidationFailures =>
        /\ pc = "exit"
        /\ exit.code = 1
        /\ hmac_table = <<>>
        /\ mac = Empty
        /\ ~out_opened
        /\ out_file = out_before

C9_Step ==
    /\ exit.kind \notin ValidationFailures
    /\ pc # "exit"
    /\ pc' = "exit" \/ StageRank(pc') = StageRank(pc) + 1

C9_ValidationTerminal == [](C9_StateAfterFailure) /\ [][C9_Step]_vars

C9_Witness ==
    /\ pc = "exit"
    /\ exit.kind = "MalformedKeyEncoding"
    /\ firmware_data.len = PAYLOAD_MAX
    /\ hmac_table = <<>>

\* the 32-bit value a line of eight hex digits denotes
ParseHex8(l) ==
    [hi |-> HexVal(l[1]) * 4096 + HexVal(l[2]) * 256 + HexVal(l[3]) * 16 + HexVal(l[4]),
     lo |-> HexVal(l[5]) * 4096 + HexVal(l[6]) * 256 + HexVal(l[7]) * 16 + HexVal(l[8])]

\* C10: for an input of n bytes and W = ceil(n / 4), bin2hex emits num_words lines
\* when num_words is given and W lines otherwise; line i < min(W, num_words) is the
\* little-endian word of bytes 4i..4i+3, missing bytes read as zero; every line i
\* with W <= i < num_words is the zero word; words from num_words on are dropped.
C10_Bin2hexWords ==
    (tool = "bin2hex" /\ hpc = "done") =>
        LET n == bin_data.len
            W == (n + 3) \div 4
            nw == IF num_words.given THEN num_words.n ELSE W
            ByteAt(j) == IF j < n THEN At(bin_data, j) ELSE 0
            Expected(i) ==
                IF i < W
                THEN [hi |-> ByteAt(4 * i + 2) + 256 * ByteAt(4 * i + 3),
                      lo |-> ByteAt(4 * i) + 256 * ByteAt(4 * i + 1)]
                ELSE [hi |-> 0, lo |-> 0]
        IN  /\ Len(out_lines) = nw
            /\ \A i \in 0..(nw - 1) :
                 /\ Len(out_lines[i + 1]) = 8
                 /\ \A c \in 1..8 : out_lines[i + 1][c] \in HexChars
                 /\ ParseHex8(out_lines[i + 1]) = Expected(i)

C10_Witness ==
    /\ tool = "bin2hex"
    /\ hpc = "done"
    /\ num_words = [given |-> TRUE, n |-> 3]
    /\ bin_data = Bytes(<<18, 239, 0, 239, 239>>)
    /\ out_lines = << <<"e","f","0","0","e","f","1","2">>,
                      <<"0","0","0","0","0","0","e","f">>,
                      <<"0","0","0","0","0","0","0","0">> >>

====
